---- MODULE Spec2Model ----
(***************************************************************************)
(* The shared-grid synchronisation broker of backend/index.js: the grid    *)
(* state, the WebSocket connection handler and its message and close       *)
(* handlers.  Node runs every handler to completion on one thread, so each *)
(* handler is one atomic action.                                           *)
(***************************************************************************)
EXTENDS Integers, Sequences, FiniteSets, TLC

(* Number of connections the server accepts over its lifetime. *)
MaxConns == 2

Conns == 1..MaxConns

(* The value JavaScript gives for a property that is not there. *)
Undefined == "undefined"

(* Property values a client puts in a JSON object; "" is the empty string. *)
Keys == {"0,0", "5,5", "constructor"}
Claimants == {[color |-> "red", username |-> "alice"],
              [color |-> "blue", username |-> "bob"]}

(* Names every plain object inherits from Object.prototype: gridState is   *)
(* created by the literal {} and so reads these as truthy values.          *)
ObjectPrototypeKeys == {"constructor", "toString", "__proto__"}

(* The texts a client can send.  json is the kind of value JSON.parse      *)
(* yields for the text ("invalid": JSON.parse throws); the other fields    *)
(* are the properties of a parsed object, Undefined when not supplied.     *)
NonObject(kind) ==
    [json |-> kind, type |-> Undefined, key |-> Undefined,
     color |-> Undefined, username |-> Undefined]

ColorCell(k, c, u) ==
    [json |-> "object", type |-> "colorCell", key |-> k, color |-> c, username |-> u]

WellFormedMessages ==
    {ColorCell(k, o.color, o.username) : k \in Keys, o \in Claimants}

MalformedMessages ==
    {NonObject(kind) : kind \in {"invalid", "null", "number", "string", "array"}}
    \cup {[ColorCell("0,0", "red", "alice") EXCEPT !.type = t] : t \in {"ping", Undefined}}
    \cup {ColorCell(Undefined, "red", "alice"),
          ColorCell("0,0", Undefined, "alice"),
          ColorCell("0,0", "red", Undefined),
          ColorCell("0,0", "", "alice")}

Messages == WellFormedMessages \cup MalformedMessages

VARIABLES
    gridState,   \* own properties of the gridState object: key -> {color, username}
    readyState,  \* readyState of every connection's socket
    clients,     \* wss.clients, in insertion order (the order forEach visits)
    sent,        \* per connection, the messages passed to its send(), in order
    crashed,     \* an exception left a handler uncaught: the process is gone
    last,        \* the event handled last and the branch its handler took
    accepted,    \* per key, the {color, username} of every request that was stored
    race,        \* per connection, a request written by the client and its outcome
    users,       \* rows of the users table, in insertion order
    register     \* per /register request, its body, its position and its response

vars == <<gridState, readyState, clients, sent, crashed, last, accepted, race,
          users, register>>

(* Number of /register requests the server receives. *)
MaxRequests == 3

Requests == 1..MaxRequests

NotReceived ==
    [pc |-> "idle", username |-> Undefined, password |-> Undefined,
     existingUser |-> FALSE, inserted |-> FALSE, status |-> 0]

EmptyObject == [k \in {} |-> Undefined]

NoEvent == [op |-> "start", conn |-> 0, outcome |-> "none", key |-> Undefined]

NoRequest == [message |-> NonObject("none"), outcome |-> "none"]

Init ==
    /\ gridState = EmptyObject
    /\ readyState = [c \in Conns |-> "CONNECTING"]
    /\ clients = <<>>
    /\ sent = [c \in Conns |-> <<>>]
    /\ crashed = FALSE
    /\ last = NoEvent
    /\ accepted = [k \in Keys |-> <<>>]
    /\ race = [c \in Conns |-> NoRequest]
    /\ users = <<>>
    /\ register = [r \in Requests |-> NotReceived]

(* JavaScript truthiness of a property value of a parsed message. *)
Truthy(v) == v \notin {Undefined, ""}

GetIsTruthy_Never(obj, key) == key \in ObjectPrototypeKeys

(* gridState[data.key] is truthy when the read finds an own property       *)
(* (always an object) or a property inherited from Object.prototype.       *)
GetIsTruthy(obj, key) == key \in DOMAIN obj \/ key \in ObjectPrototypeKeys

SetProperty_Replaces(obj, key, value) == [k \in {key} |-> value]

(* gridState[key] = value *)
SetProperty(obj, key, value) ==
    [k \in DOMAIN obj \cup {key} |-> IF k = key THEN value ELSE obj[k]]

Occupant_Swapped(data) == [color |-> data.username, username |-> data.color]

Occupant(data) == [color |-> data.color, username |-> data.username]

InitMessage_Empty(grid) == [type |-> "init", grid |-> EmptyObject]

(* JSON.stringify({ type: "init", grid: gridState }): the text holds the   *)
(* own properties gridState has at the time of the call.                   *)
InitMessage(grid) == [type |-> "init", grid |-> grid]

CellUpdate_DropsUsername(data) ==
    [type |-> "cellUpdate", key |-> data.key, color |-> data.color,
     username |-> Undefined]

CellUpdate(data) ==
    [type |-> "cellUpdate", key |-> data.key, color |-> data.color,
     username |-> data.username]

Remove(s, c) == SelectSeq(s, LAMBDA x : x # c)

Broadcast_AllEverConnected(order, out, msg, failing) ==
    [sent |-> [c \in Conns |-> IF out[c] # <<>> THEN Append(out[c], msg) ELSE out[c]],
     threw |-> FALSE]

Broadcast_FirstOnly(order, out, msg, failing) ==
    LET open == SelectSeq(order, LAMBDA c : readyState[c] = "OPEN") IN
    [sent |-> IF open = <<>> THEN out
              ELSE [out EXCEPT ![Head(open)] = Append(@, msg)],
     threw |-> FALSE]

RECURSIVE Broadcast_SkipsNewest(_, _, _, _)
Broadcast_SkipsNewest(order, out, msg, failing) ==
    IF Len(order) <= 1 THEN [sent |-> out, threw |-> FALSE]
    ELSE LET client == Head(order) IN
         IF readyState[client] = "OPEN"
         THEN Broadcast_SkipsNewest(Tail(order),
                  [out EXCEPT ![client] = Append(@, msg)], msg, failing)
         ELSE Broadcast_SkipsNewest(Tail(order), out, msg, failing)

(* wss.clients.forEach: visit the clients in order, send msg to each whose  *)
(* readyState is OPEN.  A send that throws ends the loop: no later client   *)
(* is visited.  failing is the set of clients whose send throws.            *)
RECURSIVE Broadcast(_, _, _, _)
Broadcast(order, out, msg, failing) ==
    IF order = <<>> THEN [sent |-> out, threw |-> FALSE]
    ELSE LET client == Head(order) IN
         IF readyState[client] = "OPEN"
         THEN IF client \in failing
              THEN [sent |-> out, threw |-> TRUE]
              ELSE Broadcast(Tail(order), [out EXCEPT ![client] = Append(@, msg)],
                             msg, failing)
         ELSE Broadcast(Tail(order), out, msg, failing)

(* data.type === "colorCell" && data.key && data.color && data.username *)
IsPlacement(data) ==
    /\ data.type = "colorCell"
    /\ Truthy(data.key)
    /\ Truthy(data.color)
    /\ Truthy(data.username)

Event(op, ws, outcome, key) ==
    [op |-> op, conn |-> ws, outcome |-> outcome, key |-> key]

(* wss.on("connection"): the server has registered the socket in          *)
(* wss.clients and opened it; the handler sends the init snapshot.         *)
Connection(ws) ==
    /\ ~crashed
    /\ readyState[ws] = "CONNECTING"
    /\ readyState' = [readyState EXCEPT ![ws] = "OPEN"]
    /\ clients' = Append(clients, ws)
    /\ sent' = [sent EXCEPT ![ws] = Append(@, InitMessage(gridState))]
    /\ last' = Event("connection", ws, "init", Undefined)
    /\ UNCHANGED <<gridState, crashed, accepted>>

(* The branches of the handler that return without touching anything:      *)
(* JSON.parse threw and was caught, or the if of the placement handler     *)
(* was false.                                                              *)
Discard(ws, outcome) ==
    /\ last' = Event("message", ws, outcome, Undefined)
    /\ UNCHANGED <<gridState, readyState, clients, sent, crashed, accepted>>

(* data is null: reading data.type throws a TypeError outside the try. *)
TypeError(ws) ==
    /\ crashed' = TRUE
    /\ last' = Event("message", ws, "typeError", Undefined)
    /\ UNCHANGED <<gridState, readyState, clients, sent, accepted>>

Place_BroadcastsInit(ws, data, failing) ==
    LET grid == SetProperty(gridState, data.key, Occupant(data))
        b == Broadcast(clients, sent, InitMessage(grid), failing) IN
    /\ gridState' = grid
    /\ accepted' = [accepted EXCEPT ![data.key] = Append(@, Occupant(data))]
    /\ sent' = b.sent
    /\ crashed' = b.threw
    /\ last' = Event("message", ws, IF b.threw THEN "sendThrew" ELSE "placed", data.key)
    /\ UNCHANGED <<readyState, clients>>

(* The cell is free: store the occupant, then fan the update out. *)
Place(ws, data, failing) ==
    LET b == Broadcast(clients, sent, CellUpdate(data), failing) IN
    /\ gridState' = SetProperty(gridState, data.key, Occupant(data))
    /\ accepted' = [accepted EXCEPT ![data.key] = Append(@, Occupant(data))]
    /\ sent' = b.sent
    /\ crashed' = b.threw
    /\ last' = Event("message", ws, IF b.threw THEN "sendThrew" ELSE "placed", data.key)
    /\ UNCHANGED <<readyState, clients>>

Reject_Notifies(ws, data) ==
    /\ last' = Event("message", ws, "rejected", data.key)
    /\ sent' = [sent EXCEPT ![ws] = Append(@, [type |-> "rejected", key |-> data.key])]
    /\ UNCHANGED <<gridState, readyState, clients, crashed, accepted>>

(* The cell is taken: log and return. *)
Reject(ws, data) ==
    /\ last' = Event("message", ws, "rejected", data.key)
    /\ UNCHANGED <<gridState, readyState, clients, sent, crashed, accepted>>

(* ws.on("message") *)
OnMessage(ws, message, failing) ==
    /\ ~crashed
    /\ readyState[ws] \in {"OPEN", "CLOSING"}
    /\ IF message.json = "invalid" THEN Discard(ws, "invalid")
       ELSE IF message.json = "null" THEN TypeError(ws)
       ELSE IF ~IsPlacement(message) THEN Discard(ws, "ignored")
       ELSE IF GetIsTruthy(gridState, message.key) THEN Reject(ws, message)
       ELSE Place(ws, message, failing)

(* A message arrives and every send of the fan-out returns normally. *)
Message(ws) == \E message \in Messages : OnMessage(ws, message, {})

(* The peer or the network starts closing the socket: readyState leaves    *)
(* OPEN while the socket is still in wss.clients.                          *)
Closing(ws) ==
    /\ ~crashed
    /\ readyState[ws] = "OPEN"
    /\ readyState' = [readyState EXCEPT ![ws] = "CLOSING"]
    /\ last' = Event("closing", ws, "closing", Undefined)
    /\ UNCHANGED <<gridState, clients, sent, crashed, accepted>>

(* ws.on("close"): the socket is closed and out of wss.clients; the       *)
(* handler only logs.                                                      *)
Close(ws) ==
    /\ ~crashed
    /\ readyState[ws] \in {"OPEN", "CLOSING"}
    /\ readyState' = [readyState EXCEPT ![ws] = "CLOSED"]
    /\ clients' = Remove(clients, ws)
    /\ last' = Event("close", ws, "closed", Undefined)
    /\ UNCHANGED <<gridState, sent, crashed, accepted>>

Next ==
    \/ \E ws \in Conns : Connection(ws) /\ UNCHANGED <<race, users, register>>
    \/ \E ws \in Conns : Message(ws) /\ UNCHANGED <<race, users, register>>
    \/ \E ws \in Conns : Closing(ws) /\ UNCHANGED <<race, users, register>>
    \/ \E ws \in Conns : Close(ws) /\ UNCHANGED <<race, users, register>>

Spec == Init /\ [][Next]_vars

(* A placement is stored and the send to one open client throws during the *)
(* fan-out: nothing in the handler catches it.                             *)
MessageSendFails(ws) ==
    \E message \in WellFormedMessages, client \in Conns :
        /\ readyState[client] = "OPEN"
        /\ ~GetIsTruthy(gridState, message.key)
        /\ OnMessage(ws, message, {client})

NextFail ==
    \/ Next
    \/ \E ws \in Conns : MessageSendFails(ws) /\ UNCHANGED <<race, users, register>>

(* The broker with send failures injected at client.send. *)
SpecFail == Init /\ [][NextFail]_vars

(* Two clients have each written a placement request for the same key,     *)
(* with different colors; the server handles them in either order.         *)
InitRace ==
    /\ gridState = EmptyObject
    /\ readyState = [c \in Conns |-> "CONNECTING"]
    /\ clients = <<>>
    /\ sent = [c \in Conns |-> <<>>]
    /\ crashed = FALSE
    /\ last = NoEvent
    /\ accepted = [k \in Keys |-> <<>>]
    /\ \E k \in Keys, o1 \in Claimants, o2 \in Claimants :
          /\ o1.color # o2.color
          /\ race = [c \in Conns |->
                        IF c = 1
                        THEN [message |-> ColorCell(k, o1.color, o1.username),
                              outcome |-> "pending"]
                        ELSE IF c = 2
                        THEN [message |-> ColorCell(k, o2.color, o2.username),
                              outcome |-> "pending"]
                        ELSE NoRequest]
    /\ users = <<>>
    /\ register = [r \in Requests |-> NotReceived]

(* The server reads the request a client wrote and runs the handler on it. *)
Deliver(ws) ==
    /\ race[ws].outcome = "pending"
    /\ OnMessage(ws, race[ws].message, {})
    /\ race' = [race EXCEPT ![ws].outcome = last'.outcome]
    /\ UNCHANGED <<users, register>>

NextRace ==
    \/ \E ws \in Conns : Connection(ws) /\ UNCHANGED <<race, users, register>>
    \/ \E ws \in Conns : Deliver(ws)
    \/ \E ws \in Conns : Closing(ws) /\ UNCHANGED <<race, users, register>>
    \/ \E ws \in Conns : Close(ws) /\ UNCHANGED <<race, users, register>>

SpecRace == InitRace /\ [][NextRace]_vars

(* The socket emits "error" (the receiver met an invalid frame): the       *)
(* connection handler registers no "error" listener, so the emit throws    *)
(* and nothing catches it.                                                 *)
ErrorEvent(ws) ==
    /\ ~crashed
    /\ readyState[ws] \in {"OPEN", "CLOSING"}
    /\ crashed' = TRUE
    /\ last' = Event("error", ws, "unhandled", Undefined)
    /\ UNCHANGED <<gridState, readyState, clients, sent, accepted>>

NextError ==
    \/ Next
    \/ \E ws \in Conns : ErrorEvent(ws) /\ UNCHANGED <<race, users, register>>

(* The broker with transport errors reported on the sockets. *)
SpecError == Init /\ [][NextError]_vars

(* ---------------------------------------------------------------------- *)
(* POST /register and the users table of db.js.                            *)

RegisterUsernames == {"alice", "bob"}

(* SELECT * FROM users WHERE username = ?: a row or undefined. *)
findUserByUsername(table, username) ==
    \E i \in DOMAIN table : table[i].username = username

addUser_NoConstraint(table, user) ==
    [table |-> Append(table, user), threw |-> FALSE]

(* INSERT INTO users: the column is declared username TEXT UNIQUE, so the  *)
(* insert of a username that is already in the table throws.               *)
addUser(table, user) ==
    IF findUserByUsername(table, user.username)
    THEN [table |-> table, threw |-> TRUE]
    ELSE [table |-> Append(table, user), threw |-> FALSE]

Answer(r, status) == [register EXCEPT ![r].pc = "done", ![r].status = status]

(* The handler starts: it validates the body and runs the lookup, then     *)
(* yields at the await of the lookup's result.                             *)
RegisterReceive(r) ==
    /\ register[r].pc = "idle"
    /\ \E username \in RegisterUsernames \cup {Undefined},
          password \in {"secret", Undefined} :
          LET body == [register[r] EXCEPT !.username = username,
                                          !.password = password] IN
          IF ~Truthy(username) \/ ~Truthy(password)
          THEN register' = [register EXCEPT ![r] = [body EXCEPT !.pc = "done",
                                                                !.status = 400]]
          ELSE register' = [register EXCEPT ![r] =
                               [body EXCEPT !.pc = "lookedUp",
                                            !.existingUser =
                                                findUserByUsername(users, username)]]
    /\ UNCHANGED users

(* if (existingUser) return 409; otherwise bcrypt.hash starts and the      *)
(* handler yields until the hash is computed.                              *)
RegisterCheck(r) ==
    /\ register[r].pc = "lookedUp"
    /\ register' = IF register[r].existingUser
                   THEN Answer(r, 409)
                   ELSE [register EXCEPT ![r].pc = "hashing"]
    /\ UNCHANGED users

(* The hash is ready: addUser runs; a throw is caught and answered 500,    *)
(* otherwise the handler yields at the await of addUser's result.          *)
RegisterInsert(r) ==
    /\ register[r].pc = "hashing"
    /\ LET res == addUser(users, [username |-> register[r].username,
                                  password |-> "hashed"]) IN
       /\ users' = res.table
       /\ register' = IF res.threw
                      THEN Answer(r, 500)
                      ELSE [register EXCEPT ![r].pc = "inserted",
                                            ![r].inserted = TRUE]

(* res.json({ message: "User registered successfully" }) *)
RegisterRespond(r) ==
    /\ register[r].pc = "inserted"
    /\ register' = Answer(r, 200)
    /\ UNCHANGED users

broker == <<gridState, readyState, clients, sent, crashed, last, accepted, race>>

NextRegister ==
    \/ \E r \in Requests : RegisterReceive(r) /\ UNCHANGED broker
    \/ \E r \in Requests : RegisterCheck(r) /\ UNCHANGED broker
    \/ \E r \in Requests : RegisterInsert(r) /\ UNCHANGED broker
    \/ \E r \in Requests : RegisterRespond(r) /\ UNCHANGED broker

(* The /register route under every interleaving of its requests. *)
SpecRegister == Init /\ [][NextRegister]_vars

(* ---------------------------------------------------------------------- *)
(* Helpers of the properties.                                              *)

Last(s) == s[Len(s)]

(* The cellUpdate messages for key k among the messages sent to c. *)
UpdatesFor(c, k) ==
    {i \in DOMAIN sent[c] : sent[c][i].type = "cellUpdate" /\ sent[c][i].key = k}

(* The step is the message handler taking the given branch. *)
HandlerTook(outcome) == last'.op = "message" /\ last'.outcome = outcome

(* ---------------------------------------------------------------------- *)
(* C1: first write wins.  For every key at most one request is ever        *)
(* accepted, and once a request for a key has been accepted every later    *)
(* well-formed request for that key takes the rejecting branch and stores  *)
(* and sends nothing.                                                      *)
C1_FirstWriteWins ==
    [][\A k \in Keys :
          /\ Len(accepted'[k]) <= 1
          /\ (accepted[k] # <<>> /\ last'.op = "message" /\ last'.key = k)
                => /\ HandlerTook("rejected")
                   /\ UNCHANGED <<gridState, sent, accepted>>]_vars

C1_Witness ==
    /\ Len(accepted["0,0"]) = 1
    /\ last.op = "message" /\ last.outcome = "rejected" /\ last.key = "0,0"

(* C2: the grid is append-only.  An entry of gridState is still there,     *)
(* with the same color and username, after every step of every kind.      *)
C2_AppendOnly ==
    [][\A k \in DOMAIN gridState :
          k \in DOMAIN gridState' /\ gridState'[k] = gridState[k]]_vars

C2_Witness ==
    /\ DOMAIN gridState = {"0,0", "5,5"}
    /\ gridState["0,0"] # gridState["5,5"]
    /\ last.op = "close"

(* C3: a well-formed request whose key has no entry in gridState is always *)
(* accepted, whatever the key: the handler stores the request's color and  *)
(* username under the key.                                                 *)
C3_AbsentKeyAccepted ==
    [][\A k \in Keys :
          (last'.op = "message" /\ last'.key = k /\ k \notin DOMAIN gridState)
             => /\ HandlerTook("placed")
                /\ k \in DOMAIN gridState'
                /\ gridState'[k] = Last(accepted'[k])]_vars

(* C4: an accepted claim appends exactly one cellUpdate, carrying the      *)
(* request's key, color and username, to every connection that is OPEN    *)
(* when the handler runs, the sender included, and nothing to the others.  *)
C4_BroadcastToAllOpen ==
    [][HandlerTook("placed") =>
          LET k == last'.key
              msg == [type |-> "cellUpdate", key |-> k,
                      color |-> Last(accepted'[k]).color,
                      username |-> Last(accepted'[k]).username]
          IN \A c \in Conns :
                sent'[c] = IF readyState[c] = "OPEN"
                           THEN Append(sent[c], msg) ELSE sent[c]]_vars

C4_Witness ==
    /\ last.op = "message" /\ last.outcome = "placed"
    /\ readyState[last.conn] = "OPEN"
    /\ \A c \in Conns :
          /\ readyState[c] = "OPEN"
          /\ Last(sent[c]).type = "cellUpdate"
          /\ Last(sent[c]).key = last.key
          /\ Cardinality(UpdatesFor(c, last.key)) = 1

(* C5: two requests for the same key with different colors, written by    *)
(* two connections before either is handled, end with exactly one of them  *)
(* accepted and the other rejected, exactly one cellUpdate for the key,    *)
(* and the key's entry equal to the accepted request's color and username. *)
C5_RaceOneWinner ==
    (race[1].outcome \notin {"none", "pending"}
        /\ race[2].outcome \notin {"none", "pending"})
    => LET k == race[1].message.key
           winners == {c \in {1, 2} : race[c].outcome = "placed"}
       IN /\ Cardinality(winners) = 1
          /\ \A c \in {1, 2} \ winners : race[c].outcome = "rejected"
          /\ Len(accepted[k]) = 1
          /\ \A c \in Conns : Cardinality(UpdatesFor(c, k)) <= 1
          /\ k \in DOMAIN gridState
          /\ \A w \in winners : gridState[k] = Occupant(race[w].message)

(* C6: the init message sent to a connection that opens after some claims  *)
(* were accepted holds an entry for every accepted key, with the color and *)
(* username of the accepted request.                                       *)
C6_InitHasAllAccepted ==
    last.op = "connection"
    => LET m == Last(sent[last.conn])
       IN /\ m.type = "init"
          /\ \A k \in Keys :
                accepted[k] # <<>>
                   => k \in DOMAIN m.grid /\ m.grid[k] = accepted[k][1]

C6_Witness ==
    /\ last.op = "connection"
    /\ accepted["0,0"] # <<>> /\ accepted["5,5"] # <<>>
    /\ DOMAIN Last(sent[last.conn]).grid = {"0,0", "5,5"}

(* C7: an open connection has missed no accepted claim: every accepted key *)
(* is in the init snapshot it was sent or in a cellUpdate it was sent,     *)
(* with the accepted request's color and username.                         *)
C7_NoPlacementMissed ==
    \A c \in Conns :
        readyState[c] = "OPEN"
        => \A k \in Keys :
              accepted[k] # <<>>
              => \/ /\ k \in DOMAIN sent[c][1].grid
                    /\ sent[c][1].grid[k] = accepted[k][1]
                 \/ \E i \in UpdatesFor(c, k) :
                       /\ sent[c][i].color = accepted[k][1].color
                       /\ sent[c][i].username = accepted[k][1].username

C7_Witness ==
    \E c \in Conns :
        /\ readyState[c] = "OPEN"
        /\ DOMAIN sent[c][1].grid = {"0,0"}
        /\ UpdatesFor(c, "5,5") # {}
        /\ accepted["5,5"] # <<>>

(* C8: a message that is not a well-formed placement request is discarded: *)
(* the handler sends nothing, leaves gridState alone, raises no error and  *)
(* the sending connection stays as it was.                                 *)
C8_MalformedDiscarded ==
    [][\A ws \in Conns, m \in MalformedMessages :
          OnMessage(ws, m, {})
             => /\ UNCHANGED <<gridState, sent, clients, readyState>>
                /\ ~crashed']_vars

(* C9: a rejected claim sends nothing to anyone and leaves gridState and   *)
(* the registered connections unchanged.                                   *)
C9_RejectIsSilent ==
    [][HandlerTook("rejected")
          => UNCHANGED <<gridState, sent, clients, readyState, crashed>>]_vars

C9_Witness ==
    /\ last.op = "message" /\ last.outcome = "rejected"
    /\ last.key \in DOMAIN gridState
    /\ \A c \in Conns : readyState[c] = "OPEN"

(* C10: when the send to one open client throws during the fan-out of an   *)
(* accepted claim, every other open client is still sent the cellUpdate    *)
(* and the exception does not leave the message handler.                   *)
C10_SendFailureIsolated ==
    [][\A ws \in Conns, m \in WellFormedMessages, f \in Conns :
          (/\ readyState[f] = "OPEN"
           /\ ~GetIsTruthy(gridState, m.key)
           /\ OnMessage(ws, m, {f}))
             => /\ \A c \in Conns \ {f} :
                      readyState[c] = "OPEN"
                         => sent'[c] = Append(sent[c], CellUpdate(m))
                /\ ~crashed']_vars

(* C11: an error event on one connection is contained: that connection is  *)
(* closed and unregistered, the broker keeps running, and every other      *)
(* connection keeps its state and its registration.                        *)
C11_ErrorContained ==
    [][last'.op = "error"
          => LET ws == last'.conn
             IN /\ ~crashed'
                /\ readyState'[ws] = "CLOSED"
                /\ clients' = Remove(clients, ws)
                /\ \A c \in Conns \ {ws} : readyState'[c] = readyState[c]]_vars

(* C12: Closed is terminal.  A closed connection is not in wss.clients,    *)
(* stays closed, is sent nothing more and has no further request handled;  *)
(* the entries of gridState, those it claimed included, stay as they are.  *)
C12_ClosedIsTerminal ==
    [][\A c \in Conns :
          /\ readyState'[c] = "CLOSED"
                => \A i \in DOMAIN clients' : clients'[i] # c
          /\ readyState[c] = "CLOSED"
                => /\ readyState'[c] = "CLOSED"
                   /\ sent'[c] = sent[c]
                   /\ ~(last'.op = "message" /\ last'.conn = c)
                   /\ \A k \in DOMAIN gridState :
                         k \in DOMAIN gridState' /\ gridState'[k] = gridState[k]]_vars

C12_Witness ==
    \E c \in Conns :
        /\ readyState[c] = "CLOSED"
        /\ last.op = "message" /\ last.outcome = "placed" /\ last.conn # c
        /\ UpdatesFor(c, last.key) = {}
        /\ \E k \in DOMAIN gridState : UpdatesFor(c, k) # {}

(* C13: a connection is sent exactly one init message and it is the first  *)
(* message sent to it: nothing is sent before the connection opens, and    *)
(* everything after the init is a cellUpdate.                              *)
C13_InitFirstAndOnce ==
    \A c \in Conns :
        IF readyState[c] = "CONNECTING"
        THEN sent[c] = <<>>
        ELSE /\ sent[c] # <<>>
             /\ sent[c][1].type = "init"
             /\ \A i \in 2..Len(sent[c]) : sent[c][i].type = "cellUpdate"

C13_Witness ==
    \E c \in Conns :
        /\ Len(sent[c]) = 3
        /\ sent[c][1] = InitMessage(EmptyObject)
        /\ sent[c][2].type = "cellUpdate" /\ sent[c][3].type = "cellUpdate"

(* C14: the end-to-end scenario.  A connection opening on the empty grid   *)
(* is sent an empty init grid; the request "0,0" red alice on the empty    *)
(* grid is stored and its cellUpdate is sent to every open connection; a   *)
(* connection opening next is sent an init grid holding exactly "0,0" red  *)
(* alice; the request "0,0" blue bob is then rejected with nothing sent    *)
(* and gridState unchanged.                                                *)
AliceRequest == ColorCell("0,0", "red", "alice")

BobRequest == ColorCell("0,0", "blue", "bob")

AliceGrid == [k \in {"0,0"} |-> [color |-> "red", username |-> "alice"]]

C14_Scenario ==
    [][/\ (last'.op = "connection" /\ gridState = EmptyObject)
             => Last(sent'[last'.conn]) = [type |-> "init", grid |-> EmptyObject]
       /\ (/\ gridState = EmptyObject
           /\ last'.op = "message" /\ last'.key = "0,0"
           /\ OnMessage(last'.conn, AliceRequest, {}))
             => /\ last'.outcome = "placed"
                /\ gridState' = AliceGrid
                /\ \A c \in Conns :
                      sent'[c] = IF readyState[c] = "OPEN"
                                 THEN Append(sent[c],
                                             [type |-> "cellUpdate", key |-> "0,0",
                                              color |-> "red", username |-> "alice"])
                                 ELSE sent[c]
       /\ (last'.op = "connection" /\ gridState = AliceGrid)
             => Last(sent'[last'.conn]) = [type |-> "init", grid |-> AliceGrid]
       /\ (/\ gridState = AliceGrid
           /\ last'.op = "message" /\ last'.key = "0,0"
           /\ OnMessage(last'.conn, BobRequest, {}))
             => /\ last'.outcome = "rejected"
                /\ UNCHANGED <<gridState, sent>>]_vars

C14_Witness ==
    \E a \in Conns, b \in Conns :
        /\ a # b
        /\ readyState[a] = "OPEN" /\ readyState[b] = "OPEN"
        /\ sent[a] = <<[type |-> "init", grid |-> EmptyObject],
                       [type |-> "cellUpdate", key |-> "0,0",
                        color |-> "red", username |-> "alice"]>>
        /\ sent[b] = <<[type |-> "init", grid |-> AliceGrid]>>
        /\ gridState = AliceGrid
        /\ last = Event("message", b, "rejected", "0,0")

(* C15: broadcasts never contradict the store.  For every cellUpdate ever  *)
(* sent, gridState holds an entry for the message's key with the message's *)
(* color and username, in the state it is sent in and in every later one.  *)
C15_UpdatesMatchStore ==
    \A c \in Conns :
        \A i \in DOMAIN sent[c] :
            sent[c][i].type = "cellUpdate"
            => /\ sent[c][i].key \in DOMAIN gridState
               /\ gridState[sent[c][i].key] =
                     [color |-> sent[c][i].color, username |-> sent[c][i].username]

C15_Witness ==
    \E c \in Conns :
        /\ UpdatesFor(c, "0,0") # {} /\ UpdatesFor(c, "5,5") # {}
        /\ readyState[c] = "CLOSED"
        /\ DOMAIN gridState = {"0,0", "5,5"}

(* The grid a client holds: the grid of its init message with every        *)
(* cellUpdate sent to it afterwards applied in order.                      *)
RECURSIVE ApplyUpdates(_, _)
ApplyUpdates(grid, updates) ==
    IF updates = <<>> THEN grid
    ELSE ApplyUpdates(SetProperty(grid, Head(updates).key,
                                  [color |-> Head(updates).color,
                                   username |-> Head(updates).username]),
                      Tail(updates))

Replica(c) == ApplyUpdates(sent[c][1].grid, Tail(sent[c]))

(* C16: replica consistency.  Between handler runs, the grid held by every *)
(* open connection equals gridState.                                       *)
C16_ReplicaConsistent ==
    \A c \in Conns : readyState[c] = "OPEN" => Replica(c) = gridState

C16_Witness ==
    \E c \in Conns :
        /\ readyState[c] = "OPEN"
        /\ DOMAIN sent[c][1].grid = {"5,5"}
        /\ Len(sent[c]) = 2
        /\ Replica(c) = gridState
        /\ last.op = "close"

(* C17: no duplicate delivery.  A connection is never sent a cellUpdate    *)
(* for a key that is in the init grid it was sent, nor two cellUpdates for *)
(* the same key, and at most one cellUpdate per key is ever broadcast.     *)
C17_NoDuplicateDelivery ==
    /\ \A k \in Keys : Len(accepted[k]) <= 1
    /\ \A c \in Conns :
          sent[c] # <<>>
          => \A k \in Keys :
                /\ Cardinality(UpdatesFor(c, k)) <= 1
                /\ k \in DOMAIN sent[c][1].grid => UpdatesFor(c, k) = {}

C17_Witness ==
    \E c \in Conns :
        /\ sent[c] # <<>>
        /\ DOMAIN sent[c][1].grid = {"0,0"}
        /\ Cardinality(UpdatesFor(c, "5,5")) = 1
        /\ last.op = "message" /\ last.outcome = "rejected" /\ last.key = "5,5"

(* C18: the registration race.  Under every interleaving of /register      *)
(* requests the users table holds at most one row per username, at most    *)
(* one request per username is answered with success, and a request whose  *)
(* lookup found the username is answered 409 and inserts nothing.          *)
C18_RegisterRace ==
    /\ \A u \in RegisterUsernames :
          /\ Cardinality({i \in DOMAIN users : users[i].username = u}) <= 1
          /\ Cardinality({r \in Requests : register[r].username = u
                                            /\ register[r].status = 200}) <= 1
    /\ \A r \in Requests :
          register[r].existingUser
          => /\ ~register[r].inserted
             /\ register[r].pc = "done" => register[r].status = 409

C18_Witness ==
    \E r1 \in Requests, r2 \in Requests, r3 \in Requests :
        /\ register[r1].username = "alice" /\ register[r2].username = "alice"
        /\ register[r3].username = "alice"
        /\ register[r1].status = 200 /\ ~register[r1].existingUser
        /\ register[r2].status = 500 /\ ~register[r2].existingUser
        /\ register[r3].status = 409 /\ register[r3].existingUser
        /\ Len(users) = 1

====
